---- MODULE Spec2Model ----
(***************************************************************************)
(* Voice-command classifier: the classifier boundary (the web worker that  *)
(* owns model and scaler) and the main thread's realtime listen loop.       *)
(*                                                                         *)
(* Numbers are fixed point.  Feature values and scaler entries are integers *)
(* in units of 1e-7 (so the scaler's epsilon 1e-6 is 10); scores and        *)
(* probabilities are in units of 0.01; RMS energy is in units of 0.001.     *)
(***************************************************************************)
EXTENDS Integers, Sequences, FiniteSets, TLC

VARIABLES
    \* ---- worker (classifier boundary) ----
    model,          \* let model: any = null
    scaler,         \* let scaler: {mu, sigma} | null = null
    inbox,          \* request messages posted to the worker, not yet handled
    outbox,         \* response messages posted by the worker, not yet delivered
    lib,            \* the build of the classifier library the page runs with
    \* ---- persistence ----
    idb,            \* the IndexedDB record 'default' of store 'models', or None
    idbq,           \* IndexedDB requests issued and not yet completed, oldest first
    \* ---- main thread ----
    worker,         \* let worker: Worker | null (TRUE once created)
    calls,          \* the pending callWorker promises: [id, op, stale]; op names the code
                    \* that awaits the call, stale is history: stopListening ran since
    mic,            \* "off", "asking" (getUserMedia pending) or "on" (processor attached)
    listenTimer,    \* let listenTimer: number | null (TRUE while it holds a timer id)
    intervals,      \* the interval timers of the page that are set and not cleared
                    \* (window.setInterval / window.clearInterval), as their number
    captureBuf,     \* const captureBuf: Float32Array[], as the lengths of its chunks
    sampleRate,     \* let sampleRate = 44100
    leftSamples,    \* const leftSamples: Float32Array[], as their number
    rightSamples,   \* const rightSamples: Float32Array[], as their number
    captures,       \* the 1300 ms timeouts of the record buttons that have not fired,
                    \* oldest first, each "left" or "right"
    trainBtnDisabled,   \* trainBtn.disabled
    lastPreds,      \* const lastPreds: number[]
    inSpeech,       \* let inSpeech
    utteranceFired, \* let utteranceFired
    listenBtnDisabled,  \* listenBtn.disabled
    saveBtnDisabled,    \* saveBtn.disabled
    game,           \* const game = new InfiniteRunnerGame(gameCanvas): its fields
    rafs,           \* callbacks of requestAnimationFrame(this.loop) that have not run yet,
                    \* as their number
    startGameBtnDisabled,   \* startGameBtn.disabled
    pauseGameBtnDisabled,   \* pauseGameBtn.disabled
    segEvents,      \* history: 'voice-command' events dispatched in the current speech
                    \* segment (counted up to 2)
    \* ---- feature extractor ----
    fx              \* the call of extractFeaturesMonoFloat32 whose vector the caller has
                    \* not yet taken: its arguments, what Meyda did in it, and its
                    \* outcome; NoExtract when there is none

bvars == <<model, scaler, inbox, outbox, lib, idb>>
audio == <<captureBuf, sampleRate>>
samples == <<leftSamples, rightSamples, captures, trainBtnDisabled>>
gameBtns == <<startGameBtnDisabled, pauseGameBtnDisabled>>
runner == <<game, rafs, gameBtns>>
mvars == <<idbq, worker, runner, intervals, audio, samples, fx, calls, mic, listenTimer, lastPreds,
           inSpeech, utteranceFired, listenBtnDisabled, saveBtnDisabled, segEvents>>
smoother == <<lastPreds, inSpeech, utteranceFired, segEvents>>
buttons == <<listenBtnDisabled, saveBtnDisabled>>

vars == <<bvars, mvars>>

(***************************************************************************)
(* Bounds of the model.                                                    *)
(***************************************************************************)
MaxCalls == 2       \* boundary requests outstanding at once (posted, not yet answered to the caller)
FeatDim == 1        \* entries of a feature vector (26 in the program)
MaxCaptures == 2     \* record-button timeouts pending at once
MaxIdbOps == 1      \* IndexedDB requests in progress at once

(***************************************************************************)
(* Values.                                                                 *)
(***************************************************************************)
None == <<>>                    \* undefined / null
Some(v) == <<v>>
IsSome(o) == o # <<>>
Get(o) == o[1]

NoModel == [kind |-> "null"]
NoScaler == [tag |-> "null"]
NoExtract == [called |-> FALSE]
NullResult == [tag |-> "null"]

DefaultSampleRate == 44100      \* let sampleRate = 44100
ChunkSize == 2048               \* createScriptProcessor(2048, 1, 1)

Max2(a, b) == IF a >= b THEN a ELSE b
Min2(a, b) == IF a <= b THEN a ELSE b
Abs(a) == IF a >= 0 THEN a ELSE 0 - a

RECURSIVE SumTo(_, _)
\* f[1] + ... + f[n]
SumTo(f, n) == IF n = 0 THEN 0 ELSE f[n] + SumTo(f, n - 1)

RECURSIVE ISqrtFrom(_, _)
ISqrtFrom(v, r) == IF (r + 1) * (r + 1) > v THEN r ELSE ISqrtFrom(v, r + 1)
\* Math.sqrt on the fixed-point grid (rounded down)
ISqrt(v) == ISqrtFrom(v, 0)

Row(v) == [j \in 1..FeatDim |-> v]

(***************************************************************************)
(* post                                                                    *)
(***************************************************************************)
\* Mutant: the id of the request is not echoed.
PostWithoutId(id, ok, result, error) ==
    [id |-> 0, ok |-> ok, result |-> result, error |-> error]

Post(id, ok, result, error) ==
    [id |-> id, ok |-> ok, result |-> result, error |-> error]

(***************************************************************************)
(* deepMerge, for the two-level option objects the program uses: a key of  *)
(* extra whose value is an object ("kernel") is merged into the base's,    *)
(* every other key of extra replaces the base's.                           *)
(***************************************************************************)
IsObject(k) == k = "kernel"

DeepMerge(base, extra) ==
    [k \in (DOMAIN base) \cup (DOMAIN extra) |->
        IF k \notin DOMAIN extra THEN base[k]
        ELSE IF IsObject(k)
             THEN LET b == IF k \in DOMAIN base THEN base[k] ELSE [type |-> "rbf"]
                      x == extra[k]
                  IN [kk \in (DOMAIN b) \cup (DOMAIN x) |->
                        IF kk \in DOMAIN x THEN x[kk] ELSE b[kk]]
             ELSE extra[k]]

(***************************************************************************)
(* the game (InfiniteRunnerGame).  Vertical positions and the speed are in *)
(* half pixels (the speed grows in steps of 0.5), horizontal positions in  *)
(* quarter pixels (the lane padding is a quarter of the free width).       *)
(***************************************************************************)
CanvasWidth == 480      \* canvas.width
CanvasHeight == 200     \* canvas.height
MaxFrame == 110         \* frames of one run, from reset to reset
MaxRafs == 3            \* animation-frame callbacks pending at once

lanes == 3
laneW == 100
playerW == 70
playerH == 70
ObstacleW == 70
ObstacleH == 70

\* the fields after construction, which are also what reset() restores
NewGame ==
    [playerLane |-> 1, obstacles |-> <<>>, speed |-> 2 * 3, spawnEvery |-> 70, frame |-> 0,
     running |-> FALSE, score |-> 0]

\* laneXs[i], times 4: padding + i * (laneW + padding) + laneW / 2 with
\* padding = (width - lanes * laneW) / (lanes + 1)
LaneX(i) == (CanvasWidth - lanes * laneW) * (i + 1) + 4 * i * laneW + 2 * laneW

\* playerY, times 2
PlayerY == 2 * (CanvasHeight - 110)

MoveLeft(g) == [g EXCEPT !.playerLane = Max2(0, g.playerLane - 1)]

MoveRight(g) == [g EXCEPT !.playerLane = Min2(lanes - 1, g.playerLane + 1)]

\* the listener of 'voice-command'
OnVoiceCommand(g, label) ==
    IF ~g.running THEN g
    ELSE IF label = "LEFT" THEN MoveLeft(g)
    ELSE IF label = "RIGHT" THEN MoveRight(g)
    ELSE g

\* the listener of 'keydown'
OnKeyDown(g, key) ==
    IF ~g.running THEN g
    ELSE IF key = "ArrowLeft" THEN MoveLeft(g)
    ELSE IF key = "ArrowRight" THEN MoveRight(g)
    ELSE g

\* what sampleLanes(count) can return: the first count lanes of a shuffle of [0, 1, 2]
SampleLanes(count) ==
    {q \in [1..count -> 0..(lanes - 1)] : \A i, j \in 1..count : i # j => q[i] # q[j]}

\* the collision test of update() for obstacle o
Hits(g, o) ==
    LET px == LaneX(g.playerLane) - 2 * playerW
        ox == LaneX(o.lane) - 2 * ObstacleW
    IN /\ px < ox + 4 * ObstacleW
       /\ px + 4 * playerW > ox
       /\ PlayerY < o.y + 2 * ObstacleH
       /\ PlayerY + 2 * playerH > o.y

\* update(), where spawned is what sampleLanes returns if this frame spawns
Update(g, spawned) ==
    LET frame == g.frame + 1
        spawn == frame % g.spawnEvery = 0
        pushed == IF spawn
                  THEN g.obstacles \o [i \in 1..Len(spawned) |-> [lane |-> spawned[i], y |-> 2 * (-80)]]
                  ELSE g.obstacles
        spawnEvery == IF spawn /\ g.spawnEvery > 35 THEN g.spawnEvery - 1 ELSE g.spawnEvery
        speed == IF spawn /\ frame % 600 = 0 /\ g.speed < 2 * 10 THEN g.speed + 1 ELSE g.speed
        moved == [i \in 1..Len(pushed) |-> [pushed[i] EXCEPT !.y = @ + speed]]
        OnScreen(o) == o.y < 2 * (CanvasHeight + 100)
        obstacles == SelectSeq(moved, OnScreen)
        g1 == [g EXCEPT !.frame = frame, !.spawnEvery = spawnEvery, !.speed = speed,
                        !.obstacles = obstacles]
    IN IF \E i \in 1..Len(obstacles) : Hits(g1, obstacles[i])
       THEN [g1 EXCEPT !.running = FALSE]                       \* gameOver()
       ELSE [g1 EXCEPT !.score = @ + (speed \div 2)]

\* the frames update() can produce from g
Updates(g) ==
    IF (g.frame + 1) % g.spawnEvery = 0
    THEN {Update(g, q) : q \in SampleLanes(1) \cup SampleLanes(2)}
    ELSE {Update(g, <<>>)}

(***************************************************************************)
(* z-score scaler                                                          *)
(***************************************************************************)
ScalerEps == 10     \* 1e-6

FitScaler(X) ==
    LET n == Len(X)
        d == Len(X[1])
        mu == [j \in 1..d |-> SumTo([i \in 1..n |-> X[i][j]], n) \div n]
        ss == [j \in 1..d |->
                SumTo([i \in 1..n |-> (X[i][j] - mu[j]) * (X[i][j] - mu[j])], n)]
        sd == [j \in 1..d |-> ISqrt(ss[j] \div Max2(1, n - 1))]
    IN [mu |-> mu, sigma |-> [j \in 1..d |-> IF sd[j] = 0 THEN ScalerEps ELSE sd[j]]]

\* (x[j] - mu[j]) / (sigma[j] || 1e-6), kept to one decimal (units of 0.1)
TransformOne(x, sc) ==
    [j \in 1..Len(x) |->
        ((x[j] - sc.mu[j]) * 10) \div (IF sc.sigma[j] = 0 THEN ScalerEps ELSE sc.sigma[j])]

TransformX(X, sc) == [i \in 1..Len(X) |-> TransformOne(X[i], sc)]

(***************************************************************************)
(* labels                                                                  *)
(***************************************************************************)
\* A label array is [indices |-> TRUE, v |-> <<class index, ...>>] (typeof y[0] ===
\* 'number') or [indices |-> FALSE, v |-> <<row, ...>>]; rows are kept as they are.
OneHotify(y, k) ==
    IF y.indices
    THEN [i \in 1..Len(y.v) |->
            [c \in 1..k |-> IF c = Max2(0, Min2(k - 1, y.v[i])) + 1 THEN 1 ELSE 0]]
    ELSE y.v

(***************************************************************************)
(* The classifier library (@astermind/astermind-elm), a black box to the   *)
(* program.  `lib` is the build the page runs with: whether it exports     *)
(* KernelELM, and which prediction method its models expose.  A fitted     *)
(* model answers with the label row of the nearest training row, and with  *)
(* zeros for an input further than 3.0 from every training row.            *)
(***************************************************************************)
LibBuilds == {[kernel |-> TRUE, api |-> "proba"], [kernel |-> FALSE, api |-> "raw"]}

\* new KernelELM(cfg) / new ELM(cfg)
NewModel(lb, cfg) ==
    [kind |-> IF lb.kernel THEN "KernelELM" ELSE "ELM", api |-> lb.api, cfg |-> cfg,
     fitted |-> FALSE, Xs |-> <<>>, Y |-> <<>>]

\* model.fit(Xs, Y) / model.trainFromData(Xs, Y)
Fit(m, Xs, Y) == [m EXCEPT !.fitted = TRUE, !.Xs = Xs, !.Y = Y]

Dist(a, b) == SumTo([j \in 1..Len(a) |-> Abs(a[j] - b[j])], Len(a))

LibRaw(m, xs) ==
    IF ~m.fitted \/ Len(m.Xs) = 0 \/ Len(xs) # Len(m.Xs[1]) THEN <<>>
    ELSE LET n == Len(m.Xs)
             best == CHOOSE i \in 1..n :
                        \A k \in 1..n :
                            \/ Dist(xs, m.Xs[i]) < Dist(xs, m.Xs[k])
                            \/ Dist(xs, m.Xs[i]) = Dist(xs, m.Xs[k]) /\ i <= k
         IN IF Dist(xs, m.Xs[best]) > 30
            THEN [c \in 1..Len(m.Y[best]) |-> 0]
            ELSE [c \in 1..Len(m.Y[best]) |-> 100 * m.Y[best][c]]

\* Math.exp(v - max) * 100 for the logits the library produces (0 or -1.0)
Exp100(d) == IF d = 0 THEN 100 ELSE IF d = -100 THEN 37 ELSE 0

SeqMax(v) == CHOOSE a \in {v[i] : i \in 1..Len(v)} : \A i \in 1..Len(v) : v[i] <= a

Softmax(logits) ==
    IF Len(logits) = 0 THEN <<>>
    ELSE LET exps == [i \in 1..Len(logits) |-> Exp100(logits[i] - SeqMax(logits))]
             s0 == SumTo(exps, Len(exps))
             s == IF s0 = 0 THEN 1 ELSE s0
         IN [i \in 1..Len(exps) |-> (exps[i] * 100) \div s]

\* predictProbaFromVectors: the raw scores normalised, uniform when they are all 0
LibProba(m, xs) ==
    LET r == LibRaw(m, xs)
        s == SumTo(r, Len(r))
    IN IF Len(r) = 0 THEN <<>>
       ELSE IF s = 0 THEN [i \in 1..Len(r) |-> 100 \div Len(r)]
       ELSE [i \in 1..Len(r) |-> (r[i] * 100) \div s]

Probs1DThrows(m) == m.api = "none"

Probs1D(m, xs) ==
    IF m.api = "proba" THEN LibProba(m, xs)
    ELSE IF m.api = "logits" THEN Softmax(LibRaw(m, xs))
    ELSE LibRaw(m, xs)

(***************************************************************************)
(* export / import helpers                                                 *)
(***************************************************************************)
ModelToJSON(m) == [config |-> m.cfg, fitted |-> m.fitted, Xs |-> m.Xs, Y |-> m.Y]

LoadModelFromJSON(lb, json) ==
    [NewModel(lb, json.config) EXCEPT !.fitted = json.fitted, !.Xs = json.Xs, !.Y = json.Y]

(***************************************************************************)
(* self.onmessage.  A request is [id, action, payload]; the payload is     *)
(* None or Some(record).  `out` is what the library does in this call:     *)
(* "ok", "ctorThrows" (the constructor raises) or "runThrows" (fit,        *)
(* trainFromData or the restore method raises).  The result is the state   *)
(* after the handler and the one message it posts.                         *)
(***************************************************************************)
KnownActions == {"init", "train", "predict", "export", "import", "reset"}
LibOutcomes == {"ok", "ctorThrows", "runThrows"}

Field(payload, f) ==
    IF IsSome(payload) /\ f \in DOMAIN Get(payload) THEN Get(payload)[f] ELSE None

TrainDefaults(lb, outDim) ==
    IF lb.kernel
    THEN [task |-> "classification", outputDim |-> outDim, kernel |-> [type |-> "rbf"],
          ridgeLambda |-> 1]
    ELSE [categories |-> [i \in 1..outDim |-> i - 1], outputDim |-> outDim,
          hiddenUnits |-> 128, activation |-> "leakyrelu", ridgeLambda |-> 1]

\* train, once X and y are known to be non-empty
TrainRun(m, sc, lb, req, out) ==
    LET X == Get(Field(req.payload, "X"))
        y == Get(Field(req.payload, "y"))
        opts == Field(req.payload, "modelOptions")
        outDim == IF y.indices THEN 1 ELSE Len(y.v[1])
        sc2 == FitScaler(X)
        Xs == TransformX(X, sc2)
        Y == OneHotify(y, outDim)
        cfg == DeepMerge(TrainDefaults(lb, outDim),
                         IF IsSome(opts) THEN Get(opts) ELSE [x \in {} |-> 0])
        m2 == NewModel(lb, cfg)
    IN IF out = "ctorThrows"
       THEN [model |-> m, scaler |-> sc2,
             resp |-> Post(req.id, FALSE, NullResult, "constructor failed")]
       ELSE IF out = "runThrows"
       THEN [model |-> m2, scaler |-> sc2,
             resp |-> Post(req.id, FALSE, NullResult, "fit failed")]
       ELSE [model |-> Fit(m2, Xs, Y), scaler |-> sc2,
             resp |-> Post(req.id, TRUE, [tag |-> "trained", trained |-> TRUE], "")]

Empty(o) == ~IsSome(o) \/ Len(Get(o)) = 0
EmptyLabels(o) == ~IsSome(o) \/ Len(Get(o).v) = 0

\* Mutant: the scaler is fitted as soon as X is there, before y is looked at.
OnTrainFitsBeforeCheck(m, sc, lb, req, out) ==
    IF Empty(Field(req.payload, "X"))
    THEN [model |-> m, scaler |-> sc,
          resp |-> Post(req.id, FALSE, NullResult, "train: missing X or y")]
    ELSE IF EmptyLabels(Field(req.payload, "y"))
    THEN [model |-> m, scaler |-> FitScaler(Get(Field(req.payload, "X"))),
          resp |-> Post(req.id, FALSE, NullResult, "train: missing X or y")]
    ELSE TrainRun(m, sc, lb, req, out)

OnTrain(m, sc, lb, req, out) ==
    IF Empty(Field(req.payload, "X")) \/ EmptyLabels(Field(req.payload, "y"))
    THEN [model |-> m, scaler |-> sc,
          resp |-> Post(req.id, FALSE, NullResult, "train: missing X or y")]
    ELSE TrainRun(m, sc, lb, req, out)

OnPredict(m, sc, lb, req, out) ==
    LET x == Field(req.payload, "x")
        same(r) == [model |-> m, scaler |-> sc, resp |-> r]
    IN IF m = NoModel
       THEN same(Post(req.id, FALSE, NullResult, "Model not trained yet"))
       ELSE IF ~IsSome(x) /\ sc # NoScaler
       THEN same(Post(req.id, FALSE, NullResult, "Cannot read properties of undefined"))
       ELSE IF Probs1DThrows(m)
       THEN same(Post(req.id, FALSE, NullResult, "Model has no predict method"))
       ELSE LET xs == IF ~IsSome(x) THEN <<>>
                      ELSE IF sc # NoScaler THEN TransformOne(Get(x), sc) ELSE Get(x)
            IN same(Post(req.id, TRUE, [tag |-> "y", y |-> Probs1D(m, xs)], ""))

\* Mutant: export answers with the model state but leaves the scaler out.
OnExportWithoutScaler(m, sc, lb, req, out) ==
    IF m = NoModel
    THEN [model |-> m, scaler |-> sc,
          resp |-> Post(req.id, FALSE, NullResult, "No model to export")]
    ELSE [model |-> m, scaler |-> sc,
          resp |-> Post(req.id, TRUE,
                        [tag |-> "export", modelJSON |-> ModelToJSON(m), scaler |-> NoScaler], "")]

OnExport(m, sc, lb, req, out) ==
    IF m = NoModel
    THEN [model |-> m, scaler |-> sc,
          resp |-> Post(req.id, FALSE, NullResult, "No model to export")]
    ELSE [model |-> m, scaler |-> sc,
          resp |-> Post(req.id, TRUE,
                        [tag |-> "export", modelJSON |-> ModelToJSON(m), scaler |-> sc], "")]

\* Mutant: an import without a scaler keeps the scaler the boundary holds.
OnImportKeepsScaler(m, sc, lb, req, out) ==
    LET json == Field(req.payload, "modelJSON")
        s == Field(req.payload, "scaler")
    IN IF ~IsSome(json)
       THEN [model |-> m, scaler |-> sc,
             resp |-> Post(req.id, FALSE, NullResult, "Missing modelJSON")]
       ELSE IF out # "ok"
       THEN [model |-> m, scaler |-> sc,
             resp |-> Post(req.id, FALSE, NullResult, "restore failed")]
       ELSE [model |-> LoadModelFromJSON(lb, Get(json)),
             scaler |-> IF IsSome(s) THEN Get(s) ELSE sc,
             resp |-> Post(req.id, TRUE, [tag |-> "imported", imported |-> TRUE], "")]

OnImport(m, sc, lb, req, out) ==
    LET json == Field(req.payload, "modelJSON")
        s == Field(req.payload, "scaler")
    IN IF ~IsSome(json)
       THEN [model |-> m, scaler |-> sc,
             resp |-> Post(req.id, FALSE, NullResult, "Missing modelJSON")]
       ELSE IF out # "ok"
       THEN [model |-> m, scaler |-> sc,
             resp |-> Post(req.id, FALSE, NullResult, "restore failed")]
       ELSE [model |-> LoadModelFromJSON(lb, Get(json)),
             scaler |-> IF IsSome(s) THEN Get(s) ELSE NoScaler,
             resp |-> Post(req.id, TRUE, [tag |-> "imported", imported |-> TRUE], "")]

\* the branches of the handler for the six actions
\* Mutant: init hands out a fresh boundary.
OnKnownInitClears(m, sc, lb, req, out) ==
    IF req.action = "init"
    THEN [model |-> NoModel, scaler |-> NoScaler,
          resp |-> Post(req.id, TRUE, [tag |-> "ready", ready |-> TRUE], "")]
    ELSE IF req.action = "train" THEN OnTrain(m, sc, lb, req, out)
    ELSE IF req.action = "predict" THEN OnPredict(m, sc, lb, req, out)
    ELSE IF req.action = "export" THEN OnExport(m, sc, lb, req, out)
    ELSE IF req.action = "import" THEN OnImport(m, sc, lb, req, out)
    ELSE [model |-> NoModel, scaler |-> NoScaler,
          resp |-> Post(req.id, TRUE, [tag |-> "reset", reset |-> TRUE], "")]

OnKnown(m, sc, lb, req, out) ==
    IF req.action = "init"
    THEN [model |-> m, scaler |-> sc,
          resp |-> Post(req.id, TRUE, [tag |-> "ready", ready |-> TRUE], "")]
    ELSE IF req.action = "train" THEN OnTrain(m, sc, lb, req, out)
    ELSE IF req.action = "predict" THEN OnPredict(m, sc, lb, req, out)
    ELSE IF req.action = "export" THEN OnExport(m, sc, lb, req, out)
    ELSE IF req.action = "import" THEN OnImport(m, sc, lb, req, out)
    ELSE [model |-> NoModel, scaler |-> NoScaler,
          resp |-> Post(req.id, TRUE, [tag |-> "reset", reset |-> TRUE], "")]

\* Mutant: an unknown action is answered as a failure but drops model and scaler.
OnMessageUnknownDropsModel(m, sc, lb, req, out) ==
    IF req.action \in KnownActions THEN OnKnown(m, sc, lb, req, out)
    ELSE [model |-> NoModel, scaler |-> NoScaler,
          resp |-> Post(req.id, FALSE, NullResult, "Unknown action: " \o req.action)]

OnMessage(m, sc, lb, req, out) ==
    IF req.action \in KnownActions THEN OnKnown(m, sc, lb, req, out)
    ELSE [model |-> m, scaler |-> sc,
          resp |-> Post(req.id, FALSE, NullResult, "Unknown action: " \o req.action)]

\* Mutant: the worker takes the newest request of its inbox.
WorkerTakesNewest ==
    /\ inbox # <<>>
    /\ \E out \in (IF inbox[Len(inbox)].action \in {"train", "import"} THEN LibOutcomes ELSE {"ok"}) :
       \E r \in {OnMessage(model, scaler, lib, inbox[Len(inbox)], out)} :
           /\ model' = r.model
           /\ scaler' = r.scaler
           /\ inbox' = SubSeq(inbox, 1, Len(inbox) - 1)
           /\ outbox' = Append(outbox, r.resp)
    /\ UNCHANGED <<lib, idb, mvars>>

\* The worker takes the oldest request of its inbox and runs the handler to its end.
\* Mutant: an error inside the handler is not caught, so nothing is posted for it.
WorkerOnMessageSilentOnError ==
    /\ inbox # <<>>
    /\ \E out \in (IF Head(inbox).action \in {"train", "import"} THEN LibOutcomes ELSE {"ok"}) :
       \E r \in {OnMessage(model, scaler, lib, Head(inbox), out)} :
           /\ model' = r.model
           /\ scaler' = r.scaler
           /\ inbox' = Tail(inbox)
           /\ outbox' = IF r.resp.ok THEN Append(outbox, r.resp) ELSE outbox
    /\ UNCHANGED <<lib, idb, mvars>>

WorkerOnMessage ==
    /\ inbox # <<>>
    /\ \E out \in (IF Head(inbox).action \in {"train", "import"} THEN LibOutcomes ELSE {"ok"}) :
       \E r \in {OnMessage(model, scaler, lib, Head(inbox), out)} :
           /\ model' = r.model
           /\ scaler' = r.scaler
           /\ inbox' = Tail(inbox)
           /\ outbox' = Append(outbox, r.resp)
    /\ UNCHANGED <<lib, idb, mvars>>

(***************************************************************************)
(* The boundary on its own, driven by an arbitrary caller: any request of  *)
(* BoundaryRequests may be posted at any time, with an id no outstanding   *)
(* request uses; a message without data arrives with id undefined (0).     *)
(***************************************************************************)
XDemo == <<Row(100), Row(200)>>
YDemo == << <<1, 0>>, <<0, 1>> >>

TrainPayloads ==
    {None,
     Some([X |-> Some(<<>>), y |-> Some([indices |-> FALSE, v |-> YDemo]), modelOptions |-> None]),
     Some([X |-> Some(XDemo), y |-> None, modelOptions |-> None]),
     Some([X |-> Some(XDemo), y |-> Some([indices |-> FALSE, v |-> <<>>]), modelOptions |-> None]),
     Some([X |-> Some(XDemo), y |-> Some([indices |-> FALSE, v |-> YDemo]),
           modelOptions |-> Some([kernel |-> [type |-> "rbf", sigma |-> 100], ridgeLambda |-> 1])])}

PredictPayloads ==
    {None} \cup {Some([x |-> Some(Row(v))]) : v \in {200, 1000}}

ImportPayloads ==
    {None}
    \cup (IF IsSome(idb)
          THEN {Some([modelJSON |-> Some(Get(idb).modelJSON), scaler |-> None]),
                Some([modelJSON |-> Some(Get(idb).modelJSON),
                      scaler |-> IF Get(idb).scaler = NoScaler THEN None
                                 ELSE Some(Get(idb).scaler)])}
          ELSE {})

BoundaryRequests ==
    {[action |-> a, payload |-> None] : a \in {"init", "export", "reset", "frobnicate"}}
    \cup {[action |-> "train", payload |-> p] : p \in TrainPayloads}
    \cup {[action |-> "predict", payload |-> p] : p \in PredictPayloads}
    \cup {[action |-> "import", payload |-> p] : p \in ImportPayloads}

Outstanding == {inbox[i].id : i \in 1..Len(inbox)} \cup {outbox[i].id : i \in 1..Len(outbox)}

ClientPost ==
    /\ \E id \in 1..MaxCalls : \E rq \in BoundaryRequests :
        /\ Len(inbox) + Len(outbox) < MaxCalls
        /\ id \notin Outstanding
        /\ \A k \in 1..(id - 1) : k \in Outstanding
        /\ inbox' = Append(inbox, [id |-> id, action |-> rq.action, payload |-> rq.payload])
    /\ UNCHANGED <<model, scaler, outbox, lib, idb, mvars>>

\* a message event whose data is undefined: e.data || {}
ClientPostNoData ==
    /\ Len(inbox) + Len(outbox) < MaxCalls
    /\ inbox' = Append(inbox, [id |-> 0, action |-> "undefined", payload |-> None])
    /\ UNCHANGED <<model, scaler, outbox, lib, idb, mvars>>

\* The caller takes the oldest response; it keeps what an export returned.
ClientReceive ==
    /\ outbox # <<>>
    /\ outbox' = Tail(outbox)
    /\ idb' = IF Head(outbox).ok /\ Head(outbox).result.tag = "export"
              THEN Some([modelJSON |-> Head(outbox).result.modelJSON,
                         scaler |-> Head(outbox).result.scaler])
              ELSE idb
    /\ UNCHANGED <<model, scaler, inbox, lib, mvars>>

InitBoundary ==
    /\ model = NoModel
    /\ scaler = NoScaler
    /\ inbox = <<>>
    /\ outbox = <<>>
    /\ lib \in LibBuilds
    /\ idb = None
    /\ idbq = <<>>
    /\ worker = TRUE
    /\ fx = NoExtract
    /\ calls = {}
    /\ mic = "off"
    /\ listenTimer = FALSE
    /\ intervals = 0
    /\ game = NewGame
    /\ rafs = 0
    /\ startGameBtnDisabled = FALSE
    /\ pauseGameBtnDisabled = TRUE
    /\ captureBuf = <<>>
    /\ sampleRate = DefaultSampleRate
    /\ leftSamples = 0
    /\ rightSamples = 0
    /\ captures = <<>>
    /\ trainBtnDisabled = TRUE
    /\ lastPreds = <<>>
    /\ inSpeech = FALSE
    /\ utteranceFired = FALSE
    /\ listenBtnDisabled = TRUE
    /\ saveBtnDisabled = TRUE
    /\ segEvents = 0

NextBoundary == ClientPost \/ ClientPostNoData \/ WorkerOnMessage \/ ClientReceive

SpecBoundary == InitBoundary /\ [][NextBoundary]_vars

(***************************************************************************)
(* The boundary driven by train requests only: training sets of one row,   *)
(* of equal rows, of rows 2e-7 apart and of rows further apart, with the   *)
(* labels given as class indices or as one-hot rows.                       *)
(***************************************************************************)
TrainX ==
    {<<Row(100)>>, <<Row(100), Row(100)>>, <<Row(100), Row(102)>>, XDemo,
     <<Row(0), Row(100), Row(200)>>}

\* the label arrays, by position: class indices twice, one-hot rows once
TrainY ==
    <<[indices |-> TRUE, v |-> <<0, 1>>], [indices |-> TRUE, v |-> <<1, 0>>],
      [indices |-> FALSE, v |-> YDemo]>>

ClientTrain ==
    /\ \E id \in 1..MaxCalls : \E X \in TrainX : \E n \in DOMAIN TrainY :
        /\ Len(inbox) + Len(outbox) < MaxCalls
        /\ id \notin Outstanding
        /\ \A k \in 1..(id - 1) : k \in Outstanding
        /\ inbox' = Append(inbox, [id |-> id, action |-> "train",
                                   payload |-> Some([X |-> Some(X), y |-> Some(TrainY[n]),
                                                     modelOptions |-> None])])
    /\ UNCHANGED <<model, scaler, outbox, lib, idb, mvars>>

NextTrain == ClientTrain \/ WorkerOnMessage \/ ClientReceive

SpecTrain == InitBoundary /\ [][NextTrain]_vars

(***************************************************************************)
(* main.ts: the worker bridge.  callWorker registers a listener for a      *)
(* fresh id and posts the request; the listener settles its promise when a *)
(* response with that id is delivered.  The ids are random strings, here   *)
(* the least number no pending call uses.                                  *)
(***************************************************************************)
FreeIds == {id \in 1..MaxCalls : \A c \in calls : c.id # id}
NewId == CHOOSE id \in FreeIds : \A k \in FreeIds : id <= k

CallWorker(op, action, payload) ==
    /\ FreeIds # {}
    /\ calls' = calls \cup {[id |-> NewId, op |-> op, stale |-> FALSE]}
    /\ inbox' = Append(inbox, [id |-> NewId, action |-> action, payload |-> payload])

\* Mutant: the listeners do not compare ids, so the response settles every pending call.
DeliverToEveryListener(op) ==
    /\ outbox # <<>>
    /\ \E c \in calls : c.id = Head(outbox).id /\ c.op = op
    /\ outbox' = Tail(outbox)
    /\ calls' = {}

\* The oldest response is delivered to the listener of the call `op` made.
Deliver(op) ==
    /\ outbox # <<>>
    /\ \E c \in calls : c.id = Head(outbox).id /\ c.op = op
    /\ outbox' = Tail(outbox)
    /\ calls' = {c \in calls : c.id # Head(outbox).id}

(***************************************************************************)
(* Utils and the decision smoother.                                        *)
(***************************************************************************)
VAD_ENTER == 5          \* 0.005
VAD_EXIT == 3           \* 0.003
CONF_THRESHOLD == 40    \* 0.40
PRED_WINDOW == 5
REQUIRE_VAD == TRUE

NoMajority == -1

\* argmax(v): the first index (from 0) holding the largest value, and that value
Argmax(v) ==
    LET i == CHOOSE a \in 1..Len(v) :
                /\ \A b \in 1..Len(v) : v[b] <= v[a]
                /\ \A b \in 1..(a - 1) : v[b] < v[a]
    IN [idx |-> i - 1, val |-> v[i]]

\* Mutant: the window never evicts.
PushPredUnbounded(preds, idx) == Append(preds, idx)

PushPred(preds, idx) ==
    LET p == Append(preds, idx)
    IN IF Len(p) > PRED_WINDOW THEN Tail(p) ELSE p

\* counts: the Map after the first n entries of preds, as its entries in insertion order
RECURSIVE Counts(_, _)
Counts(preds, n) ==
    IF n = 0 THEN <<>>
    ELSE LET c == Counts(preds, n - 1)
         IN IF \E i \in 1..Len(c) : c[i].k = preds[n]
            THEN [i \in 1..Len(c) |-> IF c[i].k = preds[n] THEN [k |-> c[i].k, c |-> c[i].c + 1]
                                      ELSE c[i]]
            ELSE Append(c, [k |-> preds[n], c |-> 1])

\* Mutant: a later class with the same count replaces the best one.
RECURSIVE BestTiesToLater(_, _)
BestTiesToLater(counts, n) ==
    IF n = 0 THEN [best |-> -1, bestC |-> -1]
    ELSE LET b == BestTiesToLater(counts, n - 1)
         IN IF counts[n].c >= b.bestC THEN [best |-> counts[n].k, bestC |-> counts[n].c] ELSE b

\* counts.forEach((c, k) => { if (c > bestC) { bestC = c; best = k; } }) over n entries
RECURSIVE Best(_, _)
Best(counts, n) ==
    IF n = 0 THEN [best |-> -1, bestC |-> -1]
    ELSE LET b == Best(counts, n - 1)
         IN IF counts[n].c > b.bestC THEN [best |-> counts[n].k, bestC |-> counts[n].c] ELSE b

Majority(preds) ==
    IF Len(preds) = 0 THEN NoMajority
    ELSE Best(Counts(preds, Len(preds)), Len(Counts(preds, Len(preds)))).best

\* Mutant: the fired flag survives the start of a segment.
ResetVotesKeepsFlag == [lastPreds |-> <<>>, utteranceFired |-> utteranceFired]

ResetVotes == [lastPreds |-> <<>>, utteranceFired |-> FALSE]

\* Mutant: the gate leaves Speech at the enter threshold (no hysteresis).
SpeechNowOneThreshold(e) == ~REQUIRE_VAD \/ e >= VAD_ENTER

SpeechNow(e) == ~REQUIRE_VAD \/ (IF inSpeech THEN e >= VAD_EXIT ELSE e >= VAD_ENTER)

\* Mutant: the zero-feature guard lets every vector through.
NonZeroAlways(feats) == TRUE

NonZero(feats) == \E i \in 1..Len(feats) : feats[i] # 0

\* Mutant: the fired flag is not consulted.
ObserveIgnoresFlag(preds, fired, y) ==
    IF Len(y) < 2
    THEN [lastPreds |-> preds, utteranceFired |-> fired, event |-> FALSE, label |-> ""]
    ELSE LET sum == SumTo(y, Len(y))
             probs == IF sum > 0 THEN [i \in 1..Len(y) |-> (y[i] * 100) \div sum] ELSE y
             am == Argmax(probs)
             p2 == IF am.val >= CONF_THRESHOLD THEN PushPred(preds, am.idx) ELSE preds
             fire == Majority(p2) # NoMajority /\ am.val >= CONF_THRESHOLD
         IN [lastPreds |-> p2, utteranceFired |-> (fired \/ fire), event |-> fire,
             label |-> IF Majority(p2) = 0 THEN "LEFT" ELSE "RIGHT"]

\* What the continuation of a tick does with the scores y of its predict call:
\* the new history and fired flag, whether a 'voice-command' event is dispatched, and
\* the label it carries then.
Observe(preds, fired, y) ==
    IF Len(y) < 2
    THEN [lastPreds |-> preds, utteranceFired |-> fired, event |-> FALSE, label |-> ""]
    ELSE LET sum == SumTo(y, Len(y))
             probs == IF sum > 0 THEN [i \in 1..Len(y) |-> (y[i] * 100) \div sum] ELSE y
             am == Argmax(probs)
             p2 == IF am.val >= CONF_THRESHOLD THEN PushPred(preds, am.idx) ELSE preds
             fire == Majority(p2) # NoMajority /\ ~fired /\ am.val >= CONF_THRESHOLD
         IN [lastPreds |-> p2, utteranceFired |-> (fired \/ fire), event |-> fire,
             label |-> IF Majority(p2) = 0 THEN "LEFT" ELSE "RIGHT"]

(***************************************************************************)
(* live listen                                                             *)
(***************************************************************************)
Energy == {2, 3, 4, 5}      \* RMS of the window: below, at and above the two thresholds
TickFeats == {Row(0), Row(100), Row(200), Row(1000)}

\* livePredictTick from the feature guard to the await of the predict call
TickPredict(feats) ==
    IF NonZero(feats)
    THEN CallWorker("tick", "predict", Some([x |-> Some(feats)]))
    ELSE UNCHANGED <<calls, inbox>>

\* livePredictTick up to its first macrotask suspension (extractFeaturesMonoFloat32
\* awaits nothing, so its await resumes in the same task).  e is the RMS of the
\* captured window, feats what feature extraction gives for it.
LivePredictTick(e, feats) ==
    /\ intervals > 0
    /\ e \in (IF mic = "on" THEN Energy ELSE {0})
    /\ IF ~worker
       THEN UNCHANGED <<smoother, calls, inbox>>
       ELSE IF ~inSpeech /\ SpeechNow(e)
       THEN /\ inSpeech' = TRUE
            /\ lastPreds' = ResetVotes.lastPreds
            /\ utteranceFired' = ResetVotes.utteranceFired
            /\ segEvents' = 0
            /\ TickPredict(feats)
       ELSE IF inSpeech /\ ~SpeechNow(e)
       THEN /\ inSpeech' = FALSE
            /\ UNCHANGED <<lastPreds, utteranceFired, segEvents, calls, inbox>>
       ELSE IF ~inSpeech
       THEN UNCHANGED <<smoother, calls, inbox>>
       ELSE /\ UNCHANGED smoother
            /\ TickPredict(feats)
    /\ UNCHANGED <<model, scaler, outbox, lib, idb, idbq, worker, runner, intervals, audio, samples, fx,
                   mic, listenTimer, buttons>>

\* One firing of the interval timer startListening set.  setInterval does not wait
\* for the promise livePredictTick returns.
TimerFires == \E e \in Energy \cup {0} : \E feats \in TickFeats : LivePredictTick(e, feats)

\* Mutant: a rejected predict call stops the loop.
TickResponseStopsOnError ==
    /\ Deliver("tick")
    /\ \E r \in {IF Head(outbox).ok
                 THEN Observe(lastPreds, utteranceFired, Head(outbox).result.y)
                 ELSE [lastPreds |-> lastPreds, utteranceFired |-> utteranceFired,
                       event |-> FALSE]} :
        /\ lastPreds' = r.lastPreds
        /\ utteranceFired' = r.utteranceFired
        /\ segEvents' = IF r.event /\ inSpeech THEN Min2(segEvents + 1, 2) ELSE segEvents
        /\ game' = IF r.event THEN OnVoiceCommand(game, r.label) ELSE game
    /\ listenTimer' = (listenTimer /\ Head(outbox).ok)
    /\ UNCHANGED <<model, scaler, inbox, lib, idb, idbq, worker, rafs, gameBtns, intervals, audio, samples, fx,
                   mic, inSpeech, buttons>>

\* The continuation of livePredictTick after the predict call settles.  A rejected
\* call (ok = false) ends the tick with an unhandled rejection.
TickResponse ==
    /\ Deliver("tick")
    /\ \E r \in {IF Head(outbox).ok
                 THEN Observe(lastPreds, utteranceFired, Head(outbox).result.y)
                 ELSE [lastPreds |-> lastPreds, utteranceFired |-> utteranceFired,
                       event |-> FALSE]} :
        /\ lastPreds' = r.lastPreds
        /\ utteranceFired' = r.utteranceFired
        /\ segEvents' = IF r.event /\ inSpeech THEN Min2(segEvents + 1, 2) ELSE segEvents
        /\ game' = IF r.event THEN OnVoiceCommand(game, r.label) ELSE game
    /\ UNCHANGED <<model, scaler, inbox, lib, idb, idbq, worker, rafs, gameBtns, intervals, audio, samples, fx,
                   mic, listenTimer, inSpeech, buttons>>

\* listenBtn.onclick while no timer runs: ensureWorker().then(startListening)
StartListening ==
    /\ ~listenBtnDisabled
    /\ ~listenTimer
    /\ worker
    /\ lastPreds' = <<>>
    /\ inSpeech' = FALSE
    /\ utteranceFired' = FALSE
    /\ listenTimer' = TRUE
    /\ intervals' = intervals + 1
    /\ UNCHANGED <<bvars, idbq, worker, runner, audio, samples, fx, calls, mic, buttons, segEvents>>

\* Mutant: stopListening forgets the handle without clearing the interval.
StopListeningLeavesInterval ==
    /\ ~listenBtnDisabled
    /\ listenTimer
    /\ listenTimer' = FALSE
    /\ inSpeech' = FALSE
    /\ calls' = {IF c.op = "tick" THEN [c EXCEPT !.stale = TRUE] ELSE c : c \in calls}
    /\ UNCHANGED <<bvars, idbq, worker, runner, intervals, audio, samples, fx, mic, lastPreds,
                   utteranceFired, buttons, segEvents>>

\* listenBtn.onclick while the timer runs: stopListening
StopListening ==
    /\ ~listenBtnDisabled
    /\ listenTimer
    /\ listenTimer' = FALSE
    /\ intervals' = intervals - 1
    /\ inSpeech' = FALSE
    /\ calls' = {IF c.op = "tick" THEN [c EXCEPT !.stale = TRUE] ELSE c : c \in calls}
    /\ UNCHANGED <<bvars, idbq, worker, runner, audio, samples, fx, mic, lastPreds, utteranceFired,
                   buttons, segEvents>>

(***************************************************************************)
(* microphone                                                              *)
(***************************************************************************)
MicClick ==
    /\ mic = "off"
    /\ mic' = "asking"
    /\ UNCHANGED <<bvars, idbq, worker, runner, intervals, audio, samples, fx, calls, listenTimer,
                   smoother, buttons>>

\* getUserMedia resolves and enableMic runs to its end; sr is the context's sample rate
MicGranted(sr) ==
    /\ mic = "asking"
    /\ mic' = "on"
    /\ sampleRate' = sr
    /\ UNCHANGED <<bvars, idbq, worker, runner, intervals, captureBuf, samples, fx, calls, listenTimer,
                   smoother, buttons>>

MicDenied ==
    /\ mic = "asking"
    /\ mic' = "off"
    /\ UNCHANGED <<bvars, idbq, worker, runner, intervals, audio, samples, fx, calls, listenTimer,
                   smoother, buttons>>

(***************************************************************************)
(* audio capture                                                           *)
(***************************************************************************)
\* the samples held by the chunks i..Len(buf)
RECURSIVE TotalFrom(_, _)
TotalFrom(buf, i) == IF i > Len(buf) THEN 0 ELSE buf[i] + TotalFrom(buf, i + 1)

\* Math.ceil(5 * sampleRate), for the integer rates of ContextRates
MaxSamples(sr) == 5 * sr

\* The for loop of onaudioprocess at index i (from 1), total being the samples of the
\* chunks after i: the first chunk, from the newest back, with which the running total
\* exceeds maxSamples; 1 when the loop runs out.
RECURSIVE KeepFrom(_, _, _, _)
KeepFrom(buf, i, total, maxSamples) ==
    IF i = 0 THEN 1
    ELSE IF total + buf[i] > maxSamples THEN i
    ELSE KeepFrom(buf, i - 1, total + buf[i], maxSamples)

\* captureBuf.splice(0, i) drops the chunks before that chunk; the chunk itself stays
Trim(buf, maxSamples) == SubSeq(buf, KeepFrom(buf, Len(buf), 0, maxSamples), Len(buf))

\* processor.onaudioprocess: one buffer of the script processor is appended, then the
\* rolling buffer is trimmed, in one task
OnAudioProcess ==
    /\ mic = "on"
    /\ captureBuf' = Trim(Append(captureBuf, ChunkSize), MaxSamples(sampleRate))
    /\ UNCHANGED <<bvars, idbq, worker, runner, intervals, sampleRate, samples, fx, calls, mic,
                   listenTimer, smoother, buttons>>

RoomFor(label) == (IF label = "left" THEN leftSamples ELSE rightSamples) < 4

\* recLeftBtn.onclick / recRightBtn.onclick: with the mic on and fewer than 4 samples of
\* the label, beginSample empties the rolling buffer and the capture is scheduled
\* 1300 ms ahead
RecClick(label) ==
    /\ mic = "on"
    /\ RoomFor(label)
    /\ Len(captures) < MaxCaptures
    /\ captureBuf' = <<>>
    /\ captures' = Append(captures, label)
    /\ UNCHANGED <<bvars, idbq, worker, runner, intervals, sampleRate, leftSamples, rightSamples,
                   trainBtnDisabled, fx, calls, mic, listenTimer, smoother, buttons>>

BeginSample == \E label \in {"left", "right"} : RecClick(label)

\* The timeout of the oldest pending recording fires: the captured audio is turned into
\* a feature vector (the await resumes in the same task), which is pushed onto the
\* samples of its label; the train button follows the two counts.
CaptureDone ==
    /\ captures # <<>>
    /\ captures' = Tail(captures)
    /\ leftSamples' = leftSamples + (IF Head(captures) = "left" THEN 1 ELSE 0)
    /\ rightSamples' = rightSamples + (IF Head(captures) = "right" THEN 1 ELSE 0)
    /\ trainBtnDisabled' = ~(leftSamples' >= 4 /\ rightSamples' >= 4)
    /\ UNCHANGED <<bvars, idbq, worker, runner, intervals, audio, fx, calls, mic, listenTimer, smoother,
                   buttons>>

\* the sample rates an audio context may run at
ContextRates == {8000, 16000, 44100}

(***************************************************************************)
(* persistence.  IndexedDB requests complete in the order they are issued. *)
(***************************************************************************)
IdbRequest(op, data) ==
    /\ Len(idbq) < MaxIdbOps
    /\ idbq' = Append(idbq, [op |-> op, data |-> data])

\* loadModel after ensureWorker's init call settles (the call made at startup)
LoadInitResponse ==
    /\ Deliver("loadInit")
    /\ IF Head(outbox).ok THEN IdbRequest("get", None) ELSE UNCHANGED idbq
    /\ UNCHANGED <<model, scaler, inbox, lib, idb, worker, runner, intervals, audio, samples, fx, mic,
                   listenTimer, smoother, buttons>>

\* loadBtn.onclick: the worker exists, ensureWorker resolves at once
LoadClick ==
    /\ worker
    /\ IdbRequest("get", None)
    /\ UNCHANGED <<bvars, worker, runner, intervals, audio, samples, fx, calls, mic, listenTimer,
                   smoother, buttons>>

\* loadModelFromIDB resolves: nothing saved, or the import call is made
IdbGetDone ==
    /\ idbq # <<>> /\ Head(idbq).op = "get"
    /\ idbq' = Tail(idbq)
    /\ IF idb = None
       THEN UNCHANGED <<calls, inbox>>
       ELSE CallWorker("load", "import",
                       Some([modelJSON |-> Some(Get(idb).modelJSON),
                             scaler |-> IF Get(idb).scaler = NoScaler THEN None
                                        ELSE Some(Get(idb).scaler)]))
    /\ UNCHANGED <<model, scaler, outbox, lib, idb, worker, runner, intervals, audio, samples, fx, mic,
                   listenTimer, smoother, buttons>>

LoadResponse ==
    /\ Deliver("load")
    /\ IF Head(outbox).ok
       THEN listenBtnDisabled' = FALSE /\ saveBtnDisabled' = FALSE
       ELSE UNCHANGED buttons
    /\ UNCHANGED <<model, scaler, inbox, lib, idb, idbq, worker, runner, intervals, audio, samples, fx,
                   mic, listenTimer, smoother>>

\* saveBtn.onclick
SaveClick ==
    /\ ~saveBtnDisabled
    /\ CallWorker("save", "export", None)
    /\ UNCHANGED <<model, scaler, outbox, lib, idb, idbq, worker, runner, intervals, audio, samples, fx,
                   mic, listenTimer, smoother, buttons>>

SaveResponse ==
    /\ Deliver("save")
    /\ IF Head(outbox).ok
       THEN IdbRequest("put", Some([modelJSON |-> Head(outbox).result.modelJSON,
                                    scaler |-> Head(outbox).result.scaler]))
       ELSE UNCHANGED idbq
    /\ UNCHANGED <<model, scaler, inbox, lib, idb, worker, runner, intervals, audio, samples, fx, mic,
                   listenTimer, smoother, buttons>>

IdbPutDone ==
    /\ idbq # <<>> /\ Head(idbq).op = "put"
    /\ idbq' = Tail(idbq)
    /\ idb' = Head(idbq).data
    /\ UNCHANGED <<model, scaler, inbox, outbox, lib, worker, runner, intervals, audio, samples, fx,
                   calls, mic, listenTimer, smoother, buttons>>

\* X and y as trainModel builds them: the left samples, then the right ones.  A sample
\* of "left" stands as the vector Row(100), one of "right" as Row(200).
TrainingX ==
    [i \in 1..(leftSamples + rightSamples) |-> IF i <= leftSamples THEN Row(100) ELSE Row(200)]

TrainingY ==
    [i \in 1..(leftSamples + rightSamples) |-> IF i <= leftSamples THEN <<1, 0>> ELSE <<0, 1>>]

\* trainBtn.onclick up to the await of the train call (the worker exists; with fewer
\* than 8 rows trainModel returns without a call)
TrainClick ==
    /\ ~trainBtnDisabled
    /\ worker
    /\ leftSamples + rightSamples >= 8
    /\ CallWorker("train", "train",
                  Some([X |-> Some(TrainingX), y |-> Some([indices |-> FALSE, v |-> TrainingY]),
                        modelOptions |-> Some([task |-> "classification", outputDim |-> 2,
                                               kernel |-> [type |-> "rbf", sigma |-> 100],
                                               ridgeLambda |-> 1])]))
    /\ UNCHANGED <<model, scaler, outbox, lib, idb, idbq, worker, runner, intervals, audio, samples, fx,
                   mic, listenTimer, smoother, buttons>>

\* trainModel after the train call settles; a rejected call leaves the controls alone
TrainResponse ==
    /\ Deliver("train")
    /\ IF Head(outbox).ok
       THEN listenBtnDisabled' = FALSE /\ saveBtnDisabled' = FALSE
       ELSE UNCHANGED buttons
    /\ UNCHANGED <<model, scaler, inbox, lib, idb, idbq, worker, runner, intervals, audio, samples, fx,
                   mic, listenTimer, smoother>>

\* resetModelBtn.onclick
ResetClick ==
    /\ worker
    /\ CallWorker("reset", "reset", None)
    /\ UNCHANGED <<model, scaler, outbox, lib, idb, idbq, worker, runner, intervals, audio, samples, fx,
                   mic, listenTimer, smoother, buttons>>

ResetResponse ==
    /\ Deliver("reset")
    /\ IF Head(outbox).ok THEN IdbRequest("delete", None) ELSE UNCHANGED idbq
    /\ UNCHANGED <<model, scaler, inbox, lib, idb, worker, runner, intervals, audio, samples, fx, mic,
                   listenTimer, smoother, buttons>>

\* deleteModelFromIDB resolves and resetModel runs to its end
IdbDeleteDone ==
    /\ idbq # <<>> /\ Head(idbq).op = "delete"
    /\ idbq' = Tail(idbq)
    /\ idb' = None
    /\ listenBtnDisabled' = TRUE
    /\ saveBtnDisabled' = TRUE
    /\ utteranceFired' = FALSE
    /\ UNCHANGED <<model, scaler, inbox, outbox, lib, worker, runner, intervals, audio, samples, fx,
                   calls, mic, listenTimer, lastPreds, inSpeech, segEvents>>

(***************************************************************************)
(* The page.  At the end of the module's evaluation loadModel() has made   *)
(* the worker and posted init; IndexedDB holds nothing or the model an     *)
(* earlier visit trained on the demo set and saved.                        *)
(***************************************************************************)
SavedDemo(lb) ==
    [modelJSON |-> ModelToJSON(Fit(NewModel(lb, TrainDefaults(lb, 2)),
                                   TransformX(XDemo, FitScaler(XDemo)), YDemo)),
     scaler |-> FitScaler(XDemo)]

Init ==
    /\ model = NoModel
    /\ scaler = NoScaler
    /\ lib \in LibBuilds
    /\ idb \in {None, Some(SavedDemo(lib))}
    /\ idbq = <<>>
    /\ worker = TRUE
    /\ fx = NoExtract
    /\ calls = {[id |-> 1, op |-> "loadInit", stale |-> FALSE]}
    /\ inbox = <<[id |-> 1, action |-> "init", payload |-> None]>>
    /\ outbox = <<>>
    /\ mic = "off"
    /\ listenTimer = FALSE
    /\ intervals = 0
    /\ game = NewGame
    /\ rafs = 0
    /\ startGameBtnDisabled = FALSE
    /\ pauseGameBtnDisabled = TRUE
    /\ captureBuf = <<>>
    /\ sampleRate = DefaultSampleRate
    /\ leftSamples = 0
    /\ rightSamples = 0
    /\ captures = <<>>
    /\ trainBtnDisabled = TRUE
    /\ lastPreds = <<>>
    /\ inSpeech = FALSE
    /\ utteranceFired = FALSE
    /\ listenBtnDisabled = TRUE
    /\ saveBtnDisabled = TRUE
    /\ segEvents = 0

\* Listening, with the operations that give and take the model away.
Next ==
    \/ WorkerOnMessage
    \/ TimerFires \/ TickResponse \/ StartListening \/ StopListening
    \/ MicClick \/ MicGranted(DefaultSampleRate) \/ MicDenied
    \/ LoadInitResponse \/ LoadClick \/ IdbGetDone \/ LoadResponse
    \/ ResetClick \/ ResetResponse \/ IdbDeleteDone

Spec == Init /\ [][Next]_vars

\* Listening with the model the page loaded at startup, the Load and Reset buttons
\* left alone.
NextListen ==
    \/ WorkerOnMessage
    \/ TimerFires \/ TickResponse \/ StartListening \/ StopListening
    \/ MicClick \/ MicGranted(DefaultSampleRate) \/ MicDenied
    \/ LoadInitResponse \/ IdbGetDone \/ LoadResponse

SpecListen == Init /\ [][NextListen]_vars

\* a response to a tick's predict call is the oldest undelivered message
TickReady == outbox # <<>> /\ \E c \in calls : c.id = Head(outbox).id /\ c.op = "tick"

\* The listen loop with both event loops running: the worker handles every message it
\* is sent, and the page runs the listener of every message the worker posts.  For
\* WorkerOnMessage and TickResponse weak fairness is written out, []<>~ENABLED <<A>>_vars
\* \/ []<><<A>>_vars, with the condition that enables the action in place of ENABLED:
\* a message in the inbox, a tick's response at the head of the outbox.
SpecListenFair ==
    /\ Init
    /\ [][NextListen]_vars
    /\ ([]<>(inbox = <<>>) \/ []<><<WorkerOnMessage>>_vars)
    /\ ([]<>(~TickReady) \/ []<><<TickResponse>>_vars)
    /\ WF_vars(LoadInitResponse)
    /\ WF_vars(LoadResponse)

\* Persistence alone: the page with the listen loop left off.
NextPersist ==
    \/ WorkerOnMessage
    \/ LoadInitResponse \/ LoadClick \/ IdbGetDone \/ LoadResponse
    \/ SaveClick \/ SaveResponse \/ IdbPutDone
    \/ ResetClick \/ ResetResponse \/ IdbDeleteDone

SpecPersist == Init /\ [][NextPersist]_vars

(***************************************************************************)
(* the game's controls, frames and listeners                               *)
(***************************************************************************)
\* this.loop as the callback of requestAnimationFrame
Loop ==
    /\ rafs > 0
    /\ IF game.running
       THEN /\ game.frame < MaxFrame
            /\ game' \in Updates(game)
            /\ rafs' = rafs                 \* this callback has run, the next is requested
       ELSE /\ game' = game
            /\ rafs' = rafs - 1
    /\ UNCHANGED <<gameBtns, bvars, idbq, worker, intervals, audio, samples, fx, calls, mic,
                   listenTimer, smoother, buttons>>

\* startGameBtn.onclick: game.start(), whose call of loop() runs the first frame
StartGameClick ==
    /\ ~startGameBtnDisabled
    /\ IF game.running
       THEN UNCHANGED <<game, rafs>>
       ELSE /\ rafs < MaxRafs
            /\ game.frame < MaxFrame
            /\ game' \in Updates([game EXCEPT !.running = TRUE])
            /\ rafs' = rafs + 1
    /\ startGameBtnDisabled' = TRUE
    /\ pauseGameBtnDisabled' = FALSE
    /\ UNCHANGED <<bvars, idbq, worker, intervals, audio, samples, fx, calls, mic, listenTimer,
                   smoother, buttons>>

\* pauseGameBtn.onclick: game.pause()
PauseGameClick ==
    /\ ~pauseGameBtnDisabled
    /\ game' = [game EXCEPT !.running = FALSE]
    /\ startGameBtnDisabled' = FALSE
    /\ pauseGameBtnDisabled' = TRUE
    /\ UNCHANGED <<rafs, bvars, idbq, worker, intervals, audio, samples, fx, calls, mic,
                   listenTimer, smoother, buttons>>

\* resetGameBtn.onclick: game.reset()
ResetGameClick ==
    /\ game' = NewGame
    /\ startGameBtnDisabled' = FALSE
    /\ pauseGameBtnDisabled' = TRUE
    /\ UNCHANGED <<rafs, bvars, idbq, worker, intervals, audio, samples, fx, calls, mic,
                   listenTimer, smoother, buttons>>

\* a 'voice-command' event reaches the game's listener
VoiceCommand(label) ==
    /\ game' = OnVoiceCommand(game, label)
    /\ UNCHANGED <<rafs, gameBtns, bvars, idbq, worker, intervals, audio, samples, fx, calls, mic,
                   listenTimer, smoother, buttons>>

\* a 'keydown' event reaches the game's listener
KeyDown(key) ==
    /\ game' = OnKeyDown(game, key)
    /\ UNCHANGED <<rafs, gameBtns, bvars, idbq, worker, intervals, audio, samples, fx, calls, mic,
                   listenTimer, smoother, buttons>>

VoiceLabel == {"LEFT", "RIGHT"}
Keys == {"ArrowLeft", "ArrowRight", "Enter"}

NextGame ==
    \/ StartGameClick \/ PauseGameClick \/ ResetGameClick
    \/ Loop
    \/ \E label \in VoiceLabel : VoiceCommand(label)
    \/ \E key \in Keys : KeyDown(key)

SpecGame == Init /\ [][NextGame]_vars

\* Recording and training on the loaded page.
NextRecord ==
    \/ WorkerOnMessage
    \/ MicClick \/ MicGranted(DefaultSampleRate) \/ MicDenied
    \/ BeginSample \/ CaptureDone
    \/ TrainClick \/ TrainResponse
    \/ LoadInitResponse \/ IdbGetDone \/ LoadResponse

SpecRecord == Init /\ [][NextRecord]_vars

\* The microphone and the capture buffer on their own: the context may run at any rate
\* of ContextRates.
NextCapture ==
    \/ MicClick \/ (\E sr \in ContextRates : MicGranted(sr)) \/ MicDenied
    \/ OnAudioProcess \/ BeginSample \/ CaptureDone

SpecCapture == Init /\ [][NextCapture]_vars

(***************************************************************************)
(* mfcc.ts.  A sample window (Float32Array) is a sequence of runs [n, v]:  *)
(* n consecutive samples of value v, v in units of 1e-7.                   *)
(***************************************************************************)
WLen(w) == SumTo([i \in 1..Len(w) |-> w[i].n], Len(w))

\* index (from 0) of the first sample of run j
Start(w, j) == SumTo([i \in 1..Len(w) |-> w[i].n], j - 1)

\* the number of non-zero samples of x.subarray(from, from + len)
NonZeroIn(w, from, len) ==
    SumTo([j \in 1..Len(w) |->
              IF w[j].v = 0 THEN 0
              ELSE Max2(0, Min2(Start(w, j) + w[j].n, from + len) - Max2(Start(w, j), from))],
          Len(w))

\* the largest |x[i]|, 0 for a window with no sample (the code starts from 1e-9)
MaxAbs(w) ==
    LET vs == {Abs(w[j].v) : j \in {i \in 1..Len(w) : w[i].n > 0}}
    IN IF vs = {} THEN 0 ELSE CHOOSE a \in vs : \A b \in vs : b <= a

\* normalize: x / max to three decimals, or a copy when max < 1e-6
Normalize(w) ==
    IF MaxAbs(w) < 10 THEN w
    ELSE [j \in 1..Len(w) |->
            IF w[j].n = 0 THEN w[j]
            ELSE [n |-> w[j].n, v |-> ((w[j].v * 1000) \div MaxAbs(w)) * 10000]]

RECURSIVE DropQuietHead(_, _)
DropQuietHead(w, thr) ==
    IF Len(w) = 0 THEN w
    ELSE IF w[1].n = 0 \/ Abs(w[1].v) < thr THEN DropQuietHead(Tail(w), thr)
    ELSE w

RECURSIVE DropQuietTail(_, _)
DropQuietTail(w, thr) ==
    IF Len(w) = 0 THEN w
    ELSE IF w[Len(w)].n = 0 \/ Abs(w[Len(w)].v) < thr
    THEN DropQuietTail(SubSeq(w, 1, Len(w) - 1), thr)
    ELSE w

\* trimSilence: s runs up over the samples below thr, then e runs down to s at most
TrimSilence(w, thr) == DropQuietTail(DropQuietHead(w, thr), thr)

RECURSIVE FloorLog2(_)
FloorLog2(t) == IF t < 2 THEN 0 ELSE 1 + FloorLog2(t \div 2)

CeilLog2(t) == IF 2 ^ FloorLog2(t) = t THEN FloorLog2(t) ELSE FloorLog2(t) + 1

IsPowerOfTwo(n) == n > 0 /\ \E k \in 0..30 : n = 2 ^ k

\* Mutant: of two powers of two at the same distance the upper one is chosen.
PickFrameSizeUpperOnTie(rate) ==
    LET target == Max2(1, rate \div 40)
        lowerPow == 2 ^ FloorLog2(target)
        upperPow == 2 ^ CeilLog2(target)
        chosen == IF Abs(upperPow - target) <= Abs(lowerPow - target) THEN upperPow ELSE lowerPow
    IN IF chosen < 256 THEN 256 ELSE IF chosen > 4096 THEN 4096 ELSE chosen

\* Math.floor(0.025 * sampleRate) is sampleRate \div 40 for the integer rates used here
PickFrameSize(rate) ==
    LET target == Max2(1, rate \div 40)
        lowerPow == 2 ^ FloorLog2(target)
        upperPow == 2 ^ CeilLog2(target)
        chosen == IF Abs(upperPow - target) < Abs(lowerPow - target) THEN upperPow
                  ELSE lowerPow
    IN IF chosen < 256 THEN 256 ELSE IF chosen > 4096 THEN 4096 ELSE chosen

(***************************************************************************)
(* Meyda.extract('mfcc', frame, ...), a black box to the program.  In one  *)
(* call it returns 13 coefficients, throws, or returns no array; `meyda`   *)
(* names which of these it does in each call of one extraction.  The       *)
(* coefficients of a frame of zeros are zeros (the mel energies go through *)
(* log(1 + x)); for any other frame they stand for some non-zero values.   *)
(***************************************************************************)
NumCoefficients == 13

MeydaPatterns == {"works", "throws", "undefined", "firstFrameThrows", "onlyTailWorks"}

\* what the k-th call of the frame loop, or the call for the tail window, does
MeydaDoes(meyda, phase, k) ==
    IF meyda = "works" THEN "mfcc"
    ELSE IF meyda = "throws" THEN "throws"
    ELSE IF meyda = "undefined" THEN "undefined"
    ELSE IF meyda = "firstFrameThrows" THEN (IF phase = "loop" /\ k = 1 THEN "throws" ELSE "mfcc")
    ELSE (IF phase = "tail" THEN "mfcc" ELSE "throws")

Mfcc(sig, from, frameSize) ==
    [d \in 1..NumCoefficients |->
        IF NonZeroIn(sig, from, frameSize) = 0 THEN 0
        ELSE NonZeroIn(sig, from, frameSize) \div 16 + d]

\* the mfccs array after the first k rounds of the frame loop
RECURSIVE Collect(_, _, _, _, _)
Collect(sig, frameSize, hop, meyda, k) ==
    IF k = 0 THEN <<>>
    ELSE IF MeydaDoes(meyda, "loop", k) = "mfcc"
    THEN Append(Collect(sig, frameSize, hop, meyda, k - 1), Mfcc(sig, (k - 1) * hop, frameSize))
    ELSE Collect(sig, frameSize, hop, meyda, k - 1)

\* Mutant: only the means are returned.
AggregateMeansOnly(mfccs) ==
    [d \in 1..Len(mfccs[1]) |->
        SumTo([t \in 1..Len(mfccs) |-> mfccs[t][d]], Len(mfccs)) \div Len(mfccs)]

\* Mutant: a standard deviation of 0 is floored to 1 unit, as the scaler's is.
AggregateFlooredStd(mfccs) ==
    LET T == Len(mfccs)
        D == Len(mfccs[1])
        means == [d \in 1..D |-> SumTo([t \in 1..T |-> mfccs[t][d]], T) \div T]
        stds == [d \in 1..D |->
                    ISqrt(SumTo([t \in 1..T |-> (mfccs[t][d] - means[d]) * (mfccs[t][d] - means[d])],
                                T) \div Max2(1, T - 1))]
    IN means \o [d \in 1..D |-> IF stds[d] = 0 THEN 1 ELSE stds[d]]

\* step 8: mean and standard deviation of every coefficient across the frames
Aggregate(mfccs) ==
    LET T == Len(mfccs)
        D == Len(mfccs[1])
        means == [d \in 1..D |-> SumTo([t \in 1..T |-> mfccs[t][d]], T) \div T]
        stds == [d \in 1..D |->
                    ISqrt(SumTo([t \in 1..T |-> (mfccs[t][d] - means[d]) * (mfccs[t][d] - means[d])],
                                T) \div Max2(1, T - 1))]
    IN means \o stds

ZeroFeatures == [i \in 1..26 |-> 0]

\* The outcome of extractFeaturesMonoFloat32(float32, sampleRate, opts): whether it
\* throws, the vector it returns, and the frame size and hop it worked with.
ExtractFeaturesMonoFloat32(float32, rate, opts, meyda) ==
    LET norm == Normalize(float32)
        trimmed == TrimSilence(norm, opts.trimThreshold)
        frameSize == PickFrameSize(rate)
        hop == frameSize \div 2
        sig3 == IF WLen(trimmed) < frameSize /\ opts.allowUntrimFallback THEN norm ELSE trimmed
        sig == IF WLen(sig3) < frameSize /\ opts.padToFrame
               THEN <<[n |-> frameSize - WLen(sig3), v |-> 0]>> \o sig3
               ELSE sig3
        rounds == IF WLen(sig) < frameSize THEN 0 ELSE (WLen(sig) - frameSize) \div hop + 1
        looped == Collect(sig, frameSize, hop, meyda, rounds)
        mfccs == IF Len(looped) = 0 /\ MeydaDoes(meyda, "tail", 1) = "mfcc"
                 THEN <<Mfcc(sig, WLen(sig) - frameSize, frameSize)>>
                 ELSE looped
        ret(t, o) == [throws |-> t, out |-> o, frameSize |-> frameSize, hop |-> hop]
    IN IF WLen(sig) < frameSize THEN ret(FALSE, ZeroFeatures)
       ELSE IF ~IsPowerOfTwo(frameSize) THEN ret(TRUE, <<>>)
       ELSE IF Len(mfccs) = 0 THEN ret(FALSE, ZeroFeatures)
       ELSE ret(FALSE, Aggregate(mfccs))

\* The windows, rates and options the extractor is called with: silence, a level
\* below 1e-6 (5), a level of 0.1 (1000000) and a tail at 0.2% of it (2000); no
\* samples, one sample, less than a frame, several frames.
Windows ==
    {<<[n |-> a, v |-> 0], [n |-> b, v |-> v], [n |-> c, v |-> q]>> :
        a \in {0, 300}, b \in {0, 1, 600, 2500}, v \in {0, 5, 1000000},
        c \in {0, 300}, q \in {0, 2000}}

SampleRates == {0, 8000, 16000, 44100, 400000}

ExtractOptions ==
    [trimThreshold : {30000, 0, 20000000}, allowUntrimFallback : BOOLEAN, padToFrame : BOOLEAN]

\* one call of the extractor, from its arguments to its return
ExtractOver(windows, rates, options, patterns) ==
    /\ ~fx.called
    /\ \E w \in windows : \E sr \in rates : \E o \in options : \E m \in patterns :
          fx' = [called |-> TRUE, float32 |-> w, sampleRate |-> sr, opts |-> o, meyda |-> m,
                 result |-> ExtractFeaturesMonoFloat32(w, sr, o, m)]
    /\ UNCHANGED <<bvars, idbq, worker, runner, intervals, audio, samples, calls, mic, listenTimer,
                   smoother, buttons>>

ExtractCall == ExtractOver(Windows, SampleRates, ExtractOptions, MeydaPatterns)

\* the caller has taken the vector; the window and the vector are garbage
ExtractTaken ==
    /\ fx.called
    /\ fx' = NoExtract
    /\ UNCHANGED <<bvars, idbq, worker, runner, intervals, audio, samples, calls, mic, listenTimer,
                   smoother, buttons>>

\* The extractor on its own, called over and over on the loaded page.
NextExtract == ExtractCall \/ ExtractTaken

SpecExtract == Init /\ [][NextExtract]_vars

\* The extractor as the page calls it (MFCC_OPTS), at every rate that gives a target
\* frame length of 0 to 9000 samples, every rate below 400 and the usual device rates,
\* on a window of speech and on a single sample.
MFCC_OPTS == [trimThreshold |-> 30000, allowUntrimFallback |-> TRUE, padToFrame |-> TRUE]

FrameRates ==
    (1..400) \cup {40 * t : t \in 1..9000}
    \cup {8000, 11025, 16000, 22050, 32000, 44100, 48000, 88200, 96000, 192000}

FrameWindows ==
    {<<[n |-> 0, v |-> 0], [n |-> b, v |-> 1000000], [n |-> 0, v |-> 0]>> : b \in {1, 2500}}

FrameCall == ExtractOver(FrameWindows, FrameRates, {MFCC_OPTS}, {"works"})

NextFrame == FrameCall \/ ExtractTaken

SpecFrame == Init /\ [][NextFrame]_vars

(***************************************************************************)
(* Claims about the boundary.  A step in which the worker handles a        *)
(* request removes the head of the inbox; the message the handler posts is *)
(* the last one of the outbox after the step.                              *)
(***************************************************************************)
Handled == inbox # <<>> /\ inbox' = Tail(inbox)
Posted == outbox'[Len(outbox')]

\* C7: for every request the boundary handles, whatever its action and outcome, it posts
\* exactly one response, which carries the request's id and an ok flag, and an error
\* message when ok is false; and it posts nothing except in answer to a request.
C7_OneResponsePerRequest ==
    [][/\ Handled =>
            /\ outbox' = Append(outbox, Posted)
            /\ Posted.id = Head(inbox).id
            /\ Posted.ok \in BOOLEAN
            /\ ~Posted.ok => Posted.error # ""
       /\ (~Handled /\ outbox' # outbox) => (outbox # <<>> /\ outbox' = Tail(outbox))]_vars

C7_Witness ==
    /\ Len(outbox) = 2
    /\ outbox[1].ok /\ outbox[1].id = 1
    /\ ~outbox[2].ok /\ outbox[2].id = 2 /\ outbox[2].error # ""

UnknownErrors == {"Unknown action: frobnicate", "Unknown action: undefined"}

ValidPredict(req) ==
    req.action = "predict" /\ model # NoModel /\ ~Probs1DThrows(model)
        /\ IsSome(Field(req.payload, "x"))

\* C8: a request whose action is none of init, train, predict, export, import, reset is
\* answered ok=false with a non-empty error message and leaves model and scaler as they
\* were; and a valid predict handled right after it (model held, x supplied) is answered
\* ok=true with the scores of the held model for the scaled input.
C8_UnknownActionIsTypedFailure ==
    [][/\ (Handled /\ Head(inbox).action \notin KnownActions) =>
            /\ ~Posted.ok
            /\ Posted.error # ""
            /\ model' = model /\ scaler' = scaler
       /\ (Handled /\ ValidPredict(Head(inbox)) /\ outbox # <<>>
                /\ outbox[Len(outbox)].error \in UnknownErrors) =>
            /\ Posted.ok
            /\ Posted.result.tag = "y"
            /\ Posted.result.y =
                    Probs1D(model, IF scaler # NoScaler
                                   THEN TransformOne(Get(Field(Head(inbox).payload, "x")), scaler)
                                   ELSE Get(Field(Head(inbox).payload, "x")))]_vars

C8_Witness ==
    /\ Len(outbox) = 2
    /\ outbox[1].error = "Unknown action: frobnicate"
    /\ outbox[2].ok /\ outbox[2].result.tag = "y" /\ Len(outbox[2].result.y) = 2
    /\ model # NoModel

InputError(req) ==
    \/ req.action \in {"predict", "export"} /\ model = NoModel
    \/ /\ req.action = "train"
       /\ IF req.payload = None THEN TRUE
          ELSE \/ Get(req.payload).X \in {None, Some(<<>>)}
               \/ Get(req.payload).y = None
               \/ Get(req.payload).y # None /\ Get(Get(req.payload).y).v = <<>>

\* C9: predict or export while no model is held, and train with missing or empty feature
\* or label arrays, are answered ok=false with an error message and leave model and
\* scaler exactly as they were.
C9_InputErrorsChangeNothing ==
    [][(Handled /\ InputError(Head(inbox))) =>
            /\ ~Posted.ok
            /\ Posted.error # ""
            /\ model' = model /\ scaler' = scaler]_vars

C9_Witness ==
    /\ Len(outbox) = 2
    /\ outbox[1].error = "train: missing X or y"
    /\ outbox[2].error = "Model not trained yet"
    /\ scaler # NoScaler

\* C10: a train request that fails because model construction or fit raises leaves the
\* previously held model and scaler intact.
C10_FailedTrainKeepsModel ==
    [][(Handled /\ Head(inbox).action = "train" /\ ~InputError(Head(inbox)) /\ ~Posted.ok) =>
            (model' = model /\ scaler' = scaler)]_vars

\* C11: reset succeeds from every boundary state and leaves model and scaler null;
\* while the model is null a predict or an export fails; and the model stays null
\* until a train or an import succeeds.
C11_ResetClearsUntilTrained ==
    /\ [][(Handled /\ Head(inbox).action = "reset")
            => (Posted.ok /\ model' = NoModel /\ scaler' = NoScaler)]_vars
    /\ [][(Handled /\ model = NoModel /\ Head(inbox).action \in {"predict", "export"})
            => ~Posted.ok]_vars
    /\ [][(Handled /\ model = NoModel /\ model' # NoModel)
            => (Posted.ok /\ Head(inbox).action \in {"train", "import"})]_vars

\* C12: a successful import sets the model to the one restored from the supplied state
\* and the scaler to the supplied scaler, or to null when none is supplied; a failed
\* import changes neither; with a null scaler predict scores the input as it is.
C12_ImportReplacesBoth ==
    /\ [][(Handled /\ Head(inbox).action = "import") =>
            IF Posted.ok
            THEN /\ model' # NoModel
                 /\ ModelToJSON(model') = Get(Get(Head(inbox).payload).modelJSON)
                 /\ scaler' = IF IsSome(Get(Head(inbox).payload).scaler)
                              THEN Get(Get(Head(inbox).payload).scaler)
                              ELSE NoScaler
            ELSE model' = model /\ scaler' = scaler]_vars
    /\ [][(Handled /\ Head(inbox).action = "predict" /\ Posted.ok /\ scaler = NoScaler
              /\ IsSome(Head(inbox).payload))
            => Posted.result.y = Probs1D(model, Get(Get(Head(inbox).payload).x))]_vars

\* An import without a scaler has just succeeded on a boundary that holds a model.
C12_Witness ==
    /\ outbox # <<>>
    /\ outbox[Len(outbox)].ok
    /\ outbox[Len(outbox)].result.tag = "imported"
    /\ model # NoModel
    /\ scaler = NoScaler

RoundTripInputs == {Row(100), Row(200), Row(1000)}

\* the response of the boundary in state (m, sc) to predict(x)
PredictOf(m, sc, x) ==
    OnMessage(m, sc, lib,
              [id |-> 1, action |-> "predict", payload |-> Some([x |-> Some(x)])], "ok").resp

\* the boundary state after export, reset and import of what export returned
RoundTrip(m, sc) ==
    LET ex == OnMessage(m, sc, lib, [id |-> 1, action |-> "export", payload |-> None], "ok")
        rs == OnMessage(ex.model, ex.scaler, lib,
                        [id |-> 1, action |-> "reset", payload |-> None], "ok")
    IN OnMessage(rs.model, rs.scaler, lib,
                 [id |-> 1, action |-> "import",
                  payload |-> Some([modelJSON |-> Some(ex.resp.result.modelJSON),
                                    scaler |-> IF ex.resp.result.scaler = NoScaler THEN None
                                               ELSE Some(ex.resp.result.scaler)])],
                 "ok")

C14_OneAtATimeInOrder ==
    /\ [][(Len(inbox') < Len(inbox))
            => /\ inbox' = Tail(inbox)
               /\ outbox' = Append(outbox, Posted)
               /\ Posted.id = Head(inbox).id]_vars
    /\ [][Handled => \E out \in LibOutcomes :
                        /\ model' = OnMessage(model, scaler, lib, Head(inbox), out).model
                        /\ scaler' = OnMessage(model, scaler, lib, Head(inbox), out).scaler
                        /\ Posted = OnMessage(model, scaler, lib, Head(inbox), out).resp]_vars

\* A train and the predict posted behind it have been answered, in that order.
C14_Witness ==
    /\ Len(outbox) = 2
    /\ outbox[1].ok /\ outbox[1].result.tag = "trained"
    /\ outbox[2].ok /\ outbox[2].result.tag = "y"

(***************************************************************************)
(* Claims about the live-listen loop.                                      *)
(***************************************************************************)
TickCalls == {c \in calls : c.op = "tick" /\ ~c.stale}

\* C1: within one contiguous speech segment (from the gate's Silence->Speech edge to
\* the next Speech->Silence edge or stop) at most one 'voice-command' event is
\* dispatched, whatever ticks, responses and other operations interleave.
\* segEvents counts the events dispatched in the segment the gate is in.
C1_OneEventPerSegment == inSpeech => segEvents <= 1

\* C2: at no time are two invocations of livePredictTick of the running timer in
\* progress (a tick is in progress while its predict call is pending).
C2_TicksNeverOverlap == Cardinality(TickCalls) <= 1

\* The response to a predict call that was in flight when stopListening ran is taken.
StaleResponseTaken ==
    /\ outbox # <<>>
    /\ outbox' = Tail(outbox)
    /\ \E c \in calls : c.id = Head(outbox).id /\ c.op = "tick" /\ c.stale

\* C3: the response to a predict call that was in flight when stopListening ran
\* appends nothing to the history and does not set the fired flag (so no event).
C3_StaleResultDiscarded ==
    [][StaleResponseTaken => (lastPreds' = lastPreds /\ utteranceFired' = utteranceFired)]_vars

\* C4: the gate starts in Silence, at page load and at every start of listening, and
\* a tick whose window has RMS energy e moves it only so: from Silence to Speech
\* exactly when e >= 0.005, from Speech to Silence exactly when e < 0.003.  (No tick
\* with energy e leaves the gate in a state other than the one this rule gives.)
C4_GateTransitions ==
    /\ ~inSpeech
    /\ [][(~listenTimer /\ listenTimer') => ~inSpeech']_vars
    /\ [][\A e \in 0..5 :
            (inSpeech' # (IF inSpeech THEN ~(e < 3) ELSE e >= 5))
                => \A f \in TickFeats : ~LivePredictTick(e, f)]_vars

\* The gate is in Speech while the timer runs: a tick has taken it there.
C4_Witness == listenTimer /\ inSpeech /\ mic = "on"

\* C5: every step that takes the gate from Silence to Speech leaves the prediction
\* history empty and the fired flag false.
C5_EdgeResetsSmoother ==
    [][(~inSpeech /\ inSpeech') => (lastPreds' = <<>> /\ utteranceFired' = FALSE)]_vars

\* A segment has just begun: the smoother is clear and the tick's predict call is
\* still waiting in the worker's queue.
C5_Witness ==
    /\ inSpeech /\ lastPreds = <<>> /\ ~utteranceFired /\ segEvents = 0
    /\ \E i \in 1..Len(inbox) : inbox[i].action = "predict"

\* C6: a predict request is sent only by a step that leaves the gate in Speech and
\* only with a feature vector that is not all-zero; a tick that leaves the gate in
\* Silence sends nothing.
C6_PredictOnlyInSpeech ==
    /\ [][(Len(inbox') > Len(inbox) /\ inbox'[Len(inbox')].action = "predict")
            => /\ inSpeech'
               /\ \E i \in 1..FeatDim : Get(Get(inbox'[Len(inbox')].payload).x)[i] # 0]_vars
    /\ [][(~inSpeech' /\ inbox' # inbox)
            => \A e \in 0..5 : \A f \in TickFeats : ~LivePredictTick(e, f)]_vars

\* A tick in Speech has sent its features: the request is the newest in the queue.
C6_Witness ==
    /\ inSpeech
    /\ inbox # <<>>
    /\ inbox[Len(inbox)].action = "predict"
    /\ Get(Get(inbox[Len(inbox)].payload).x) = Row(200)

\* C15: the caller never has more than one boundary request outstanding: no call is
\* made before the response to the call before it has been received.
C15_OneOutstandingRequest == Cardinality(calls) <= 1

\* The response to a tick's predict call is taken by the tick's continuation.
TickResponseTaken ==
    /\ outbox # <<>>
    /\ outbox' = Tail(outbox)
    /\ \E c \in calls : c.id = Head(outbox).id /\ c.op = "tick"

\* The scores y are a prediction whose confidence (the largest score, after the scores
\* are normalised when their sum is positive) is at or above 0.40.
Confident(y) ==
    /\ Len(y) >= 2
    /\ \E i \in 1..Len(y) :
          IF SumTo(y, Len(y)) > 0 THEN (y[i] * 100) \div SumTo(y, Len(y)) >= 40 ELSE y[i] >= 40

Count(preds, k) == Cardinality({i \in 1..Len(preds) : preds[i] = k})
First(preds, k) == CHOOSE i \in 1..Len(preds) : preds[i] = k /\ \A j \in 1..(i - 1) : preds[j] # k

\* C17: majority() is null for the empty history; otherwise it is a class of the
\* history with the highest count, and among the classes with that count the one that
\* occurs first in the history; [0,1,0,1] gives 0.
C17_MajorityTieBreak ==
    /\ Majority(<<>>) = NoMajority
    /\ Majority(<<0, 1, 0, 1>>) = 0
    /\ lastPreds # <<>> =>
          /\ \E i \in 1..Len(lastPreds) : lastPreds[i] = Majority(lastPreds)
          /\ \A j \in 1..Len(lastPreds) :
                /\ Count(lastPreds, Majority(lastPreds)) >= Count(lastPreds, lastPreds[j])
                /\ Count(lastPreds, Majority(lastPreds)) = Count(lastPreds, lastPreds[j])
                      => First(lastPreds, Majority(lastPreds)) <= First(lastPreds, lastPreds[j])

\* The history holds a tie in which the class that occurs first is not the newest.
C17_Witness == lastPreds = <<1, 0, 0, 1>>

\* C18: the history never holds more than 5 entries; it changes only by being cleared
\* or, on the response of a tick with confidence at or above the threshold, by one
\* class index appended at the end, the oldest entry dropped when 5 are held and the
\* others kept in order.
C18_BoundedFifo ==
    /\ [](Len(lastPreds) <= 5)
    /\ [][(lastPreds' # lastPreds) =>
            \/ lastPreds' = <<>>
            \/ /\ TickResponseTaken /\ Head(outbox).ok /\ Confident(Head(outbox).result.y)
               /\ \E k \in 0..(Len(Head(outbox).result.y) - 1) :
                     lastPreds' = IF Len(lastPreds) < 5 THEN Append(lastPreds, k)
                                  ELSE Append(Tail(lastPreds), k)]_vars

\* The window is full and its newest entry differs from the one before it.
C18_Witness == Len(lastPreds) = 5 /\ lastPreds[5] # lastPreds[4]

(***************************************************************************)
(* Claims about the feature extractor.                                     *)
(***************************************************************************)
\* C19: whatever the window (empty and shorter than a frame included), the sample
\* rate, the options and the calls in which Meyda fails, the extractor does not
\* throw and returns a vector of exactly 26 entries.
C19_ExtractNeverFails ==
    fx.called => (~fx.result.throws /\ Len(fx.result.out) = 26)

\* A window of one sample was padded to a frame and gave features that are not the
\* fallback.
C19_Witness ==
    /\ fx.called
    /\ WLen(fx.float32) = 1
    /\ fx.opts.padToFrame
    /\ ~fx.result.throws
    /\ fx.result.out # ZeroFeatures

AllZeroWindow(w) == \A j \in 1..Len(w) : w[j].n = 0 \/ w[j].v = 0

\* C20: for a window whose samples are all zero, of any length, the extractor returns
\* the vector of 26 zeros.
C20_SilenceGivesZeros ==
    (fx.called /\ AllZeroWindow(fx.float32)) =>
        (~fx.result.throws /\ fx.result.out = [i \in 1..26 |-> 0])

\* A window of zeros several frames long went through the frame loop with Meyda
\* answering every call.
C20_Witness ==
    /\ fx.called
    /\ AllZeroWindow(fx.float32)
    /\ WLen(fx.float32) >= 2500
    /\ fx.sampleRate = 16000
    /\ fx.opts.allowUntrimFallback
    /\ fx.meyda = "works"
    /\ fx.result.out = ZeroFeatures

(***************************************************************************)
(* Claims about training                                                   *)
(***************************************************************************)
\* C21: for every training set with at least one row, every entry of the fitted scaler's
\* standard-deviation vector is at least epsilon (1e-6), and so never zero.
C21_SigmaFloored ==
    scaler # NoScaler => \A j \in 1..Len(scaler.sigma) : scaler.sigma[j] >= ScalerEps

\* the class count of labels given as class indices: the largest index plus one
ClassCount(v) == 1 + SeqMax(v)

\* C22: train turns labels given as class indices into one-hot rows of the length of the
\* class count with the single 1 at the label's index, so that distinct class indices give
\* distinct rows.
C22_IndexLabelsOneHot ==
    [][(/\ Handled
        /\ Head(inbox).action = "train"
        /\ Posted.ok
        /\ Get(Field(Head(inbox).payload, "y")).indices)
       => LET v == Get(Field(Head(inbox).payload, "y")).v
              k == ClassCount(v)
          IN /\ Len(model'.Y) = Len(v)
             /\ \A i \in 1..Len(v) :
                    model'.Y[i] = [c \in 1..k |-> IF c = v[i] + 1 THEN 1 ELSE 0]
             /\ \A i, j \in 1..Len(v) : v[i] # v[j] => model'.Y[i] # model'.Y[j]]_vars


(***************************************************************************)
(* Claims about failed ticks and the timer                                 *)
(***************************************************************************)
\* C23: a tick whose predict call is rejected (ok = false) ends there: the gate, the
\* history and the fired flag stay as they are, no event is dispatched, and the
\* recurring timer stays as it is, so later ticks still run.
C23_RejectedTickContained ==
    [][(TickResponseTaken /\ ~Head(outbox).ok)
       => UNCHANGED <<lastPreds, utteranceFired, inSpeech, segEvents, listenTimer>>]_vars

\* the rejected predict call of a tick of the running timer is about to settle, in a
\* segment with a history and the flag set
C23_Witness ==
    /\ listenTimer
    /\ inSpeech
    /\ lastPreds # <<>>
    /\ utteranceFired
    /\ outbox # <<>>
    /\ ~Head(outbox).ok
    /\ \E c \in TickCalls : c.id = Head(outbox).id

\* C24: stopListening clears the recurring timer and sets the gate to Silence;
\* startListening starts a timer only when none is active, and then with the history
\* empty, the gate Silence and the fired flag false; so at most one recurring timer is
\* set in every reachable state (and listenTimer holds it).
C24_AtMostOneTimer ==
    /\ [](intervals <= 1 /\ (listenTimer <=> intervals = 1))
    /\ [][(intervals' < intervals) => (~listenTimer' /\ ~inSpeech')]_vars
    /\ [][(intervals' > intervals)
          => (/\ ~listenTimer
              /\ intervals' = intervals + 1
              /\ lastPreds' = <<>> /\ ~inSpeech' /\ ~utteranceFired')]_vars

\* listening was stopped while a tick awaited its predict call, and has been started again
C24_Witness ==
    /\ listenTimer
    /\ intervals = 1
    /\ \E c \in calls : c.op = "tick" /\ c.stale

(***************************************************************************)
(* Claims about the capture buffer                                         *)
(***************************************************************************)
\* C26: after every audio-capture callback (append, then trim) the rolling capture
\* buffer holds at most ceil(5 * sampleRate) samples.
C26_CaptureBounded == TotalFrom(captureBuf, 1) <= MaxSamples(sampleRate)

(***************************************************************************)
(* Claims about the frame size                                             *)
(***************************************************************************)
\* the power of two nearest to t, the lower one of two at the same distance
NearestPowerOfTwo(t) ==
    CHOOSE p \in {2 ^ k : k \in 0..20} :
        \A q \in {2 ^ k : k \in 0..20} :
            Abs(p - t) < Abs(q - t) \/ (Abs(p - t) = Abs(q - t) /\ p <= q)

\* C25: for every positive integer sample rate the frame size is a power of two in
\* [256, 4096], namely the power of two nearest to floor(0.025 * sampleRate) (the lower
\* one on a tie) clamped to that range; the hop is exactly half the frame size, and the
\* 'non-power-of-two frame size' error is not raised.
C25_FrameSize ==
    (fx.called /\ fx.sampleRate > 0) =>
        LET nearest == NearestPowerOfTwo(fx.sampleRate \div 40)
        IN /\ IsPowerOfTwo(fx.result.frameSize)
           /\ fx.result.frameSize >= 256 /\ fx.result.frameSize <= 4096
           /\ fx.result.frameSize =
                 (IF nearest < 256 THEN 256 ELSE IF nearest > 4096 THEN 4096 ELSE nearest)
           /\ 2 * fx.result.hop = fx.result.frameSize
           /\ ~fx.result.throws

\* a rate whose target of 384 samples lies halfway between 256 and 512
C25_Witness ==
    /\ fx.called
    /\ fx.sampleRate = 15360
    /\ fx.result.frameSize = 256
    /\ fx.result.hop = 128

(***************************************************************************)
(* Claims about the read-only requests                                     *)
(***************************************************************************)
\* C27: init, predict and export leave model and scaler as they were, whether they
\* succeed or fail; init is answered ok with ready = true in every boundary state.
C27_ReadOnlyRequests ==
    [][(Handled /\ Head(inbox).action \in {"init", "predict", "export"})
       => /\ model' = model
          /\ scaler' = scaler
          /\ Head(inbox).action = "init"
                => (Posted.ok /\ Posted.id = Head(inbox).id /\ Posted.result.tag = "ready"
                    /\ Posted.result.ready)]_vars

\* init has been answered by a boundary that holds a model and a scaler
C27_Witness ==
    /\ model # NoModel
    /\ scaler # NoScaler
    /\ outbox # <<>>
    /\ outbox[Len(outbox)].ok
    /\ outbox[Len(outbox)].result.tag = "ready"

(***************************************************************************)
(* Claims about callWorker                                                 *)
(***************************************************************************)
\* the messages in flight (requests not yet handled, responses not yet delivered) that
\* carry the id
InFlight(id) ==
    Cardinality({i \in 1..Len(inbox) : inbox[i].id = id})
    + Cardinality({i \in 1..Len(outbox) : outbox[i].id = id})

PendingIds == {c.id : c \in calls}

\* C28: every pending callWorker call is settled exactly once, and only by the response
\* that carries its id: pending calls have distinct ids and exactly one message in
\* flight each, the delivery of a response settles the call with its id and no other,
\* and a call is settled by nothing else.
C28_SettledByOwnResponse ==
    /\ [](/\ \A c, d \in calls : c.id = d.id => c = d
          /\ \A c \in calls : InFlight(c.id) = 1
          /\ \A i \in 1..Len(outbox) : outbox[i].id \in PendingIds)
    /\ [][(outbox # <<>> /\ outbox' = Tail(outbox))
          => (/\ Head(outbox).id \in PendingIds
              /\ {c.id : c \in calls'} = PendingIds \ {Head(outbox).id})]_vars
    /\ [][\A id \in PendingIds :
            id \notin {c.id : c \in calls'}
               => (outbox # <<>> /\ Head(outbox).id = id /\ outbox' = Tail(outbox))]_vars

\* two calls of different callers are pending and the response to one of them is next
C28_Witness ==
    /\ Cardinality(calls) = 2
    /\ outbox # <<>>
    /\ \E c, d \in calls : c.op = "tick" /\ d.op = "reset" /\ Head(outbox).id = d.id

\* C29: while the boundary keeps handling its inbox, every request callWorker posts is
\* answered and every pending call is settled (so every tick that awaits a predict
\* call finishes); no call stays pending forever.
C29_EveryCallSettles ==
    \A id \in 1..MaxCalls :
        /\ (\E i \in 1..Len(inbox) : inbox[i].id = id)
              ~> (\E i \in 1..Len(outbox) : outbox[i].id = id)
        /\ (id \in PendingIds) ~> (id \notin PendingIds)

\* two ticks await their predict calls, both requests still in the inbox
C29_Witness ==
    /\ Len(inbox) = 2
    /\ \A i \in 1..2 : \E c \in TickCalls : inbox[i].id = c.id

(***************************************************************************)
(* Claims about the label of the event                                     *)
(***************************************************************************)
\* the arg-max class of a tick's own scores, as livePredictTick computes it
OwnClass(y) ==
    Argmax(IF SumTo(y, Len(y)) > 0 THEN [i \in 1..Len(y) |-> (y[i] * 100) \div SumTo(y, Len(y))]
           ELSE y).idx

\* C30: whenever a 'voice-command' event is dispatched, its label is the firing tick's
\* own arg-max class (LEFT for class 0, RIGHT otherwise): the history it is voted from
\* was emptied at the start of the segment and holds no earlier tick that could change
\* the label.
C30_LabelIsOwnClass ==
    [][(TickResponseTaken /\ Head(outbox).ok)
       => LET r == Observe(lastPreds, utteranceFired, Head(outbox).result.y)
          IN r.event
               => r.label = IF OwnClass(Head(outbox).result.y) = 0 THEN "LEFT" ELSE "RIGHT"]_vars

(***************************************************************************)
(* Claims about responses that arrive late                                 *)
(***************************************************************************)
\* C31: the response to a predict call of a tick that started before the latest reset
\* of the smoother (an earlier segment or session) appends nothing to the history and
\* dispatches no event; in particular a response delivered while the gate is in Silence
\* (every tick that awaits one started before the gate closed) changes neither the
\* history nor the fired flag, so no event is dispatched in Silence.
C31_LateResponseIgnored ==
    [][(TickResponseTaken /\ ~inSpeech)
       => (lastPreds' = lastPreds /\ utteranceFired' = utteranceFired)]_vars

(***************************************************************************)
(* Claims about recording                                                  *)
(***************************************************************************)
\* C32: whatever the timing of the record clicks and of the captures they schedule,
\* there are never more than 4 samples of a label, and a train request carries exactly
\* 8 rows (4 left, 4 right).
C32_FourSamplesPerLabel ==
    /\ leftSamples <= 4
    /\ rightSamples <= 4
    /\ \A i \in 1..Len(inbox) :
          inbox[i].action = "train" => Len(Get(Get(inbox[i].payload).X)) = 8

(***************************************************************************)
(* Claims about the controls                                               *)
(***************************************************************************)
\* No request is at the boundary or on its way back, no call is pending and no
\* IndexedDB operation is under way.
Quiescent == inbox = <<>> /\ outbox = <<>> /\ calls = {} /\ idbq = <<>>

\* C33: whenever no boundary request and no persistence operation is in flight, the
\* listen and save controls are enabled exactly when the boundary holds a model.
C33_ControlsFollowModel ==
    Quiescent => ((~listenBtnDisabled /\ ~saveBtnDisabled) <=> model # NoModel)

(***************************************************************************)
(* Claims about the game                                                   *)
(***************************************************************************)
\* C34: for every sequence of start, pause, reset, game over and animation frames, at
\* most one animation-frame callback is pending, the player lane stays within 0..2,
\* and a 'voice-command' event changes the player lane only while the game runs.
C34_OneFrameLoop ==
    /\ [](rafs <= 1 /\ game.playerLane \in 0..2)
    /\ [][((\E label \in VoiceLabel : VoiceCommand(label)) /\ ~game.running)
          => game'.playerLane = game.playerLane]_vars

====
